---- MODULE Spec2Model ----
(***************************************************************************)
(* Model of claude_chat_viewer.py: the transcript parser (parse_session)   *)
(* and the content renderer (extract_text_content,                         *)
(* render_message_content).                                                *)
(*                                                                         *)
(* Python values are modelled as follows.                                  *)
(*   - str: a TLA+ string (Len, \o and SubSeq act on its characters).      *)
(*   - dict: a function whose DOMAIN is the set of keys present, so that   *)
(*     d.get(k, default) is Get(d, k, default).                            *)
(*   - a JSON value whose Python type the code depends on is tagged:       *)
(*     [t |-> "object", o |-> dict], [t |-> "string", s |-> str],          *)
(*     [t |-> "null"], [t |-> "number"].                                   *)
(* An uncaught Python exception is the outcome "raised".                   *)
(***************************************************************************)
EXTENDS Integers, Sequences, FiniteSets, TLC

VARIABLES
    lines,          \* parse_session: the lines read from the file so far
    pc,             \* parse_session: "reading", "done" (returned) or "raised"
    messages,       \* parse_session: the local list `messages`
    session_info,   \* parse_session: the local dict `session_info`
    content,        \* renderer: the `content` argument of the two entry points
    plain,          \* renderer: what extract_text_content(content) gave
    html,           \* renderer: what render_message_content(content) gave
    files,          \* the transcript files under projects/, in discovery order
    sessions,       \* the list `sessions` of the last get_all_sessions call
    request,        \* live server: the request being handled
    response,       \* live server: the response to the last request
    served,         \* history: the responses given since the last file change
    passes          \* parse_session: the locals of passes running side by side

indexVars == <<files, sessions>>
serveVars == <<request, response, served>>

vars == <<lines, pc, messages, session_info, content, plain, html,
          indexVars, serveVars, passes>>

-----------------------------------------------------------------------------
(* Bounds of the model. *)

MaxLines == 3       \* lines per transcript
MaxBlocks == 3      \* items per content list
Slack == 2          \* how far the long strings range around a truncation limit

-----------------------------------------------------------------------------
(* Python dict helpers. *)

EmptyDict == [k \in {} |-> ""]

HasKey(d, k) == k \in DOMAIN d

\* d.get(k, default)
Get(d, k, default) == IF k \in DOMAIN d THEN d[k] ELSE default

\* d[k] = v
Put(d, k, v) == [x \in (DOMAIN d) \cup {k} |-> IF x = k THEN v ELSE d[x]]

-----------------------------------------------------------------------------
(* Message content: a str, a list, or anything else (a dict, a number,      *)
(* None).                                                                    *)

StrContent(s) == [kind |-> "str", s |-> s, items |-> <<>>]
ListContent(items) == [kind |-> "list", s |-> "", items |-> items]
\* w: which other type ("dict", "number", "null")
OtherContent(w) == [kind |-> "other", s |-> w, items |-> <<>>]

-----------------------------------------------------------------------------
(* The transcripts: each line of the file is blank, text that is not JSON,  *)
(* or a JSON value.                                                        *)

BlankLine == [kind |-> "blank"]
InvalidJsonLine == [kind |-> "invalid"]
JsonLine(v) == [kind |-> "json", value |-> v]

Object(o) == [t |-> "object", o |-> o]
JsonNull == [t |-> "null"]
JsonNumber == [t |-> "number"]
JsonString(s) == [t |-> "string", s |-> s]

\* The metadata fields a record may carry next to its message.
MetaFields ==
    { EmptyDict,
      [sessionId |-> "", cwd |-> "/a", version |-> "v1"],
      [sessionId |-> "s1", cwd |-> "/a", version |-> "v1"],
      [sessionId |-> "s2", cwd |-> "/b", version |-> "v2"] }

\* dict union (the domains are disjoint where it is used)
Merge(a, b) == [k \in (DOMAIN a) \cup (DOMAIN b) |-> IF k \in DOMAIN a THEN a[k] ELSE b[k]]

\* Ordinary user and assistant records.
MessageRecord(r, u, m) ==
    Merge([type |-> r,
           message |-> Object([role |-> r, content |-> StrContent("c-" \o u)]),
           uuid |-> u, timestamp |-> "t-" \o u], m)

MessageRecords ==
    { MessageRecord(r, "u1", m) : r \in {"user", "assistant"}, m \in MetaFields }
        \cup { MessageRecord(r, "u2", EmptyDict) : r \in {"user", "assistant"} }

\* Records whose message.role and discriminator disagree or are missing.
RoleRecords ==
    { [type |-> "user", message |-> Object([content |-> StrContent("c3")]),
       sessionId |-> "s1", cwd |-> "/a", version |-> "v1", uuid |-> "u3"],
      [message |-> Object([content |-> StrContent("c3")]), sessionId |-> "s1", uuid |-> "u3"],
      [type |-> "system", message |-> Object([content |-> StrContent("c3")]), sessionId |-> "s1"],
      [type |-> "user", message |-> Object([role |-> "tool", content |-> StrContent("c3")]),
       sessionId |-> "s1", cwd |-> "/a", version |-> "v1"],
      [type |-> "system", message |-> Object([role |-> "user"]),
       sessionId |-> "s2", cwd |-> "/b"] }

\* Records whose message is missing, empty or not a mapping.
ShapeRecords ==
    { [type |-> "user", sessionId |-> "s1"],
      [type |-> "user", message |-> Object(EmptyDict), sessionId |-> "s1"],
      [type |-> "user", message |-> JsonNull, sessionId |-> "s1"],
      [type |-> "user", message |-> JsonString("hi"), sessionId |-> "s1"] }

\* Summary records, and records that mix a summary with a message.
SummaryRecords ==
    { [type |-> "summary"],
      [type |-> "summary", summary |-> "S1", leafUuid |-> "u1"],
      [type |-> "summary", summary |-> "S2", leafUuid |-> "u2"],
      [type |-> "summary", summary |-> "S1",
       message |-> Object([role |-> "user", content |-> StrContent("c4")]), sessionId |-> "s1"],
      [type |-> "user", summary |-> "S2",
       message |-> Object([role |-> "user", content |-> StrContent("c4")]), sessionId |-> "s2"] }

SnapshotRecords ==
    { [type |-> "file-history-snapshot"],
      [type |-> "file-history-snapshot",
       message |-> Object([role |-> "user", content |-> StrContent("c5")]), sessionId |-> "s2"] }

Records == MessageRecords \cup RoleRecords \cup ShapeRecords
              \cup SummaryRecords \cup SnapshotRecords

TranscriptLines ==
    {BlankLine, InvalidJsonLine, JsonLine(JsonNumber)}
        \cup { JsonLine(Object(r)) : r \in Records }

-----------------------------------------------------------------------------
(* Python str helpers. *)

\* s[:n]
Prefix(s, n) == IF Len(s) <= n THEN s ELSE SubSeq(s, 1, n)

\* c * n
RECURSIVE Repeat(_, _)
Repeat(c, n) ==
    IF n <= 0 THEN ""
    ELSE IF n = 1 THEN c
    ELSE LET h == Repeat(c, n \div 2) IN
         IF n % 2 = 0 THEN h \o h ELSE h \o h \o c

\* html.escape applied to one character (quote=True).
EscapeChar(c) ==
    CASE c = "&" -> "&amp;"
      [] c = "<" -> "&lt;"
      [] c = ">" -> "&gt;"
      [] c = "\"" -> "&quot;"
      [] c = "'" -> "&#x27;"
      [] OTHER -> c

\* html.escape(s)
RECURSIVE escape(_)
escape(s) ==
    IF Len(s) = 0 THEN ""
    ELSE IF Len(s) = 1 THEN EscapeChar(s)
    ELSE LET h == Len(s) \div 2 IN
         escape(SubSeq(s, 1, h)) \o escape(SubSeq(s, h + 1, Len(s)))

\* text.replace('\n', '<br>')
RECURSIVE ReplaceNewlines(_)
ReplaceNewlines(s) ==
    IF Len(s) = 0 THEN ""
    ELSE IF Len(s) = 1 THEN (IF s = "\n" THEN "<br>" ELSE s)
    ELSE LET h == Len(s) \div 2 IN
         ReplaceNewlines(SubSeq(s, 1, h)) \o ReplaceNewlines(SubSeq(s, h + 1, Len(s)))

\* sep.join(parts), parts a sequence of str
RECURSIVE Join(_, _)
Join(sep, parts) ==
    IF parts = <<>> THEN ""
    ELSE IF Len(parts) = 1 THEN parts[1]
    ELSE parts[1] \o sep \o Join(sep, Tail(parts))

\* A str value, and None, where the code's behaviour depends on which it gets.
Str(s) == JsonString(s)
None == JsonNull

\* The f-string rendering of a value: str(None) is "None".
Format(v) == IF v.t = "null" THEN "None" ELSE v.s

-----------------------------------------------------------------------------
(* json.dumps(value, indent=2), for the values a tool input takes here: a    *)
(* mapping from str to str (an ordered sequence of <<key, value>> pairs), or *)
(* null. Strings hold printable ASCII and newlines.                          *)

JsonEscapeChar(c) ==
    CASE c = "\"" -> "\\\""
      [] c = "\\" -> "\\\\"
      [] c = "\n" -> "\\n"
      [] OTHER -> c

RECURSIVE JsonEscape(_)
JsonEscape(s) ==
    IF Len(s) = 0 THEN ""
    ELSE IF Len(s) = 1 THEN JsonEscapeChar(s)
    ELSE LET h == Len(s) \div 2 IN
         JsonEscape(SubSeq(s, 1, h)) \o JsonEscape(SubSeq(s, h + 1, Len(s)))

JsonQuoted(s) == "\"" \o JsonEscape(s) \o "\""

Mapping(pairs) == [t |-> "object", pairs |-> pairs]

json_dumps(v) ==
    IF v.t = "null" THEN "null"
    ELSE IF v.pairs = <<>> THEN "{}"
    ELSE "{\n"
         \o Join(",\n", [i \in 1..Len(v.pairs) |->
                            "  " \o JsonQuoted(v.pairs[i][1]) \o ": "
                                 \o JsonQuoted(v.pairs[i][2])])
         \o "\n}"

\* mapping.get(k, default) on the pairs of a tool input
PairsGet(pairs, k, default) ==
    IF \E i \in 1..Len(pairs) : pairs[i][1] = k
    THEN pairs[CHOOSE i \in 1..Len(pairs) : pairs[i][1] = k][2]
    ELSE default

-----------------------------------------------------------------------------
(* The items of a content list: a dict, a str or anything else. A block      *)
(* (dict) has the keys it carries as DOMAIN; `type` is a str, `text`,        *)
(* `thinking`, `name` and `content` are Str(..) or None, `input` is          *)
(* Mapping(..) or None.                                                      *)

Block(d) == [kind |-> "dict", d |-> d]
BareString(s) == [kind |-> "str", s |-> s]
OtherItem == [kind |-> "other"]

\* The truncation limits.
ThinkingLimit == 1000
ToolResultLimit == 1000
ToolInputLimit == 500
TruncationMarker == "... (truncated)"

\* What a call gave: a value returned or an exception raised.
Returned(v) == [status |-> "returned", value |-> v]
RaisedPlain == [status |-> "raised", value |-> ""]
RaisedHtml == [status |-> "raised", value |-> <<>>]
NotCalledPlain == [status |-> "none", value |-> ""]
NotCalledHtml == [status |-> "none", value |-> <<>>]
NoContent == [kind |-> "none", s |-> "", items |-> <<>>]

-----------------------------------------------------------------------------
(* extract_text_content *)

\* Variant: item.get('text') without a default gives None for a missing key.
ItemTextNoDefault(d) == IF "text" \in DOMAIN d THEN d.text ELSE None

\* item.get('text', '')
ItemText(d) == Get(d, "text", Str(""))

\* item.get('thinking', '')
ItemThinking(d) == Get(d, "thinking", Str(""))

\* item.get('name', 'Unknown')
ItemName(d) == Get(d, "name", Str("Unknown"))

\* item.get('input', {})
ItemInput(d) == Get(d, "input", Mapping(<<>>))

\* Variant: a block of any other type adds an empty fragment.
ExtractItemOtherEmpty(item) ==
    IF item.kind = "dict"
    THEN LET d == item.d IN
         IF "type" \in DOMAIN d /\ d.type = "text" THEN << (IF "text" \in DOMAIN d THEN d.text ELSE Str("")) >>
         ELSE IF "type" \in DOMAIN d /\ d.type = "thinking"
         THEN << Str("[THINKING]\n"
                    \o (IF "thinking" \in DOMAIN d THEN Format(d.thinking) ELSE "")
                    \o "\n[/THINKING]") >>
         ELSE IF "type" \in DOMAIN d /\ d.type = "tool_use"
         THEN << Str("[TOOL: " \o (IF "name" \in DOMAIN d THEN Format(d.name) ELSE "Unknown") \o "]\n"
                    \o json_dumps(IF "input" \in DOMAIN d THEN d.input ELSE Mapping(<<>>))
                    \o "\n[/TOOL]") >>
         ELSE << Str("") >>
    ELSE IF item.kind = "str" THEN << Str(item.s) >>
    ELSE << >>

\* The body of `for item in content`: what the item appends to texts.
ExtractItem(item) ==
    IF item.kind = "dict"
    THEN LET d == item.d IN
         IF HasKey(d, "type") /\ d.type = "text" THEN << ItemText(d) >>
         ELSE IF HasKey(d, "type") /\ d.type = "thinking"
         THEN << Str("[THINKING]\n" \o Format(ItemThinking(d)) \o "\n[/THINKING]") >>
         ELSE IF HasKey(d, "type") /\ d.type = "tool_use"
         THEN << Str("[TOOL: " \o Format(ItemName(d)) \o "]\n"
                    \o json_dumps(ItemInput(d)) \o "\n[/TOOL]") >>
         ELSE << >>
    ELSE IF item.kind = "str" THEN << Str(item.s) >>
    ELSE << >>

\* texts after the loop over the items
RECURSIVE ExtractTexts(_)
ExtractTexts(items) ==
    IF items = <<>> THEN <<>>
    ELSE ExtractItem(Head(items)) \o ExtractTexts(Tail(items))

\* '\n'.join(texts): TypeError when texts holds None
JoinTexts(texts) ==
    IF \E i \in 1..Len(texts) : texts[i].t = "null"
    THEN RaisedPlain
    ELSE Returned(Join("\n", [i \in 1..Len(texts) |-> texts[i].s]))

\* Variant: content of another type is rejected.
ExtractFallbackRaises == RaisedPlain

\* return "" for content that is neither a str nor a list
ExtractFallback == Returned("")

extract_text_content(c) ==
    IF c.kind = "str" THEN Returned(c.s)
    ELSE IF c.kind = "list" THEN JoinTexts(ExtractTexts(c.items))
    ELSE ExtractFallback

-----------------------------------------------------------------------------
(* render_message_content. A formatted fragment is the record of the values  *)
(* interpolated into its HTML template: the class of the outer div, the      *)
(* header line and the body. The pictograph that opens a header is written   *)
(* as a word in brackets.                                                    *)

Fragment(cls, header, body) == [cls |-> cls, header |-> header, body |-> body]

\* '<div class="text-content">(empty message)</div>'
EmptyMessage == Fragment("text-content", "", "(empty message)")

\* One item's result: the fragments it appends, or an exception.
Parts(fs) == [raised |-> FALSE, parts |-> fs]
ItemRaises == [raised |-> TRUE, parts |-> <<>>]

\* The str content branch.
RenderString(s) == Fragment("text-content", "", ReplaceNewlines(escape(s)))

\* The thinking branch.
RenderThinking(d) ==
    LET v == ItemThinking(d) IN
    IF v.t = "null" THEN ItemRaises                      \* escape(None)
    ELSE LET thinking == Prefix(escape(v.s), ThinkingLimit) IN
         Parts(<< Fragment("message thinking", "[thought] Thinking (click to expand)",
                           IF Len(v.s) > ThinkingLimit
                           THEN thinking \o TruncationMarker ELSE thinking) >>)

\* Variant: the display is chosen by the keys of the input.
ToolDisplayByInput(tool_name, pairs) ==
    IF \E i \in 1..Len(pairs) : pairs[i][1] = "command"
    THEN "$ " \o pairs[CHOOSE i \in 1..Len(pairs) : pairs[i][1] = "command"][2]
    ELSE IF \E i \in 1..Len(pairs) : pairs[i][1] = "file_path"
    THEN "Reading: " \o pairs[CHOOSE i \in 1..Len(pairs) : pairs[i][1] = "file_path"][2]
    ELSE Prefix(json_dumps(Mapping(pairs)), ToolInputLimit)

\* `display` for a tool input that is a mapping.
ToolDisplay(tool_name, pairs) ==
    IF tool_name = "Bash"
    THEN LET cmd == PairsGet(pairs, "command", "")
             desc == PairsGet(pairs, "description", "") IN
         IF desc # "" THEN "# " \o desc \o "\n$ " \o cmd ELSE "$ " \o cmd
    ELSE IF tool_name = "Read" THEN "Reading: " \o PairsGet(pairs, "file_path", "")
    ELSE IF tool_name = "Write" THEN "Writing to: " \o PairsGet(pairs, "file_path", "")
    ELSE IF tool_name = "Edit" THEN "Editing: " \o PairsGet(pairs, "file_path", "")
    ELSE IF tool_name \in {"Grep", "Glob"}
    THEN "Pattern: " \o PairsGet(pairs, "pattern", "")
            \o "\nPath: " \o PairsGet(pairs, "path", ".")
    ELSE IF tool_name = "Task"
    THEN "Agent: " \o PairsGet(pairs, "subagent_type", "unknown")
            \o "\nTask: " \o PairsGet(pairs, "description", "")
    ELSE Prefix(json_dumps(Mapping(pairs)), ToolInputLimit)

KnownTools == {"Bash", "Read", "Write", "Edit", "Grep", "Glob", "Task"}

\* The tool_use branch.
RenderToolUse(d) ==
    LET name == ItemName(d)
        tool_input == ItemInput(d) IN
    IF name.t = "null" THEN ItemRaises                   \* escape(None)
    ELSE LET tool_name == escape(name.s) IN
         IF tool_input.t = "null"
         THEN IF tool_name \in KnownTools
              THEN ItemRaises                            \* None.get
              ELSE Parts(<< Fragment("tool-call", "[wrench] " \o tool_name,
                                     escape(Prefix(json_dumps(tool_input), ToolInputLimit))) >>)
         ELSE Parts(<< Fragment("tool-call", "[wrench] " \o tool_name,
                                escape(ToolDisplay(tool_name, tool_input.pairs))) >>)

\* The tool_result branch: str(item.get('content', ''))
RenderToolResult(d) ==
    LET text == Format(Get(d, "content", Str("")))
        result == Prefix(text, ToolResultLimit) IN
    Parts(<< Fragment("tool-call", "[outbox] Tool Result",
                      escape(IF Len(text) > ToolResultLimit
                             THEN result \o TruncationMarker ELSE result)) >>)

\* Python's \w, on ASCII text.
WordChars ==
    {"a", "b", "c", "d", "e", "f", "g", "h", "i", "j", "k", "l", "m",
     "n", "o", "p", "q", "r", "s", "t", "u", "v", "w", "x", "y", "z",
     "A", "B", "C", "D", "E", "F", "G", "H", "I", "J", "K", "L", "M",
     "N", "O", "P", "Q", "R", "S", "T", "U", "V", "W", "X", "Y", "Z",
     "0", "1", "2", "3", "4", "5", "6", "7", "8", "9", "_"}

CharAt(s, i) == SubSeq(s, i, i)

\* The backquote character, written ~ in the strings of this module (a TLA+
\* string literal cannot hold a backquote); no text here holds a real tilde.
Tick == "~"
Fence == Tick \o Tick \o Tick

\* s[i-1:].startswith(pat)
StartsWithAt(s, i, pat) ==
    i + Len(pat) - 1 <= Len(s) /\ SubSeq(s, i, i + Len(pat) - 1) = pat

\* s[i-1:j-1], empty when j <= i
Slice(s, i, j) == IF j <= i THEN "" ELSE SubSeq(s, i, j - 1)

\* The least of the positions `hits` of s, or Len(s) + 1 when there is none.
FirstOf(s, hits) ==
    IF hits = {} THEN Len(s) + 1 ELSE CHOOSE k \in hits : \A x \in hits : k <= x

\* The pattern ```(\w*)\n(.*?)``` (DOTALL) tried at position k: the fence, the
\* longest run of word characters, a newline, then the shortest body that a
\* fence closes.
CodeLangEnd(s, k) == FirstOf(s, {j \in (k + 3)..Len(s) : CharAt(s, j) \notin WordChars})
CodeClose(s, k) == FirstOf(s, {j \in (CodeLangEnd(s, k) + 1)..Len(s) : StartsWithAt(s, j, Fence)})
CodeMatchAt(s, k) ==
    /\ StartsWithAt(s, k, Fence)
    /\ CodeLangEnd(s, k) <= Len(s) /\ CharAt(s, CodeLangEnd(s, k)) = "\n"
    /\ CodeClose(s, k) <= Len(s)

\* re.sub(r'```(\w*)\n(.*?)```', r'<pre><code class="\1">\2</code></pre>',
\*        text, flags=re.DOTALL), from position i on: the leftmost match is
\* replaced and the scan goes on after it.
RECURSIVE SubCodeBlocks(_, _)
SubCodeBlocks(s, i) ==
    LET k == FirstOf(s, {j \in i..Len(s) : CodeMatchAt(s, j)})
    IN IF k > Len(s) THEN Slice(s, i, Len(s) + 1)
       ELSE Slice(s, i, k)
            \o "<pre><code class=\"" \o Slice(s, k + 3, CodeLangEnd(s, k)) \o "\">"
            \o Slice(s, CodeLangEnd(s, k) + 1, CodeClose(s, k)) \o "</code></pre>"
            \o SubCodeBlocks(s, CodeClose(s, k) + 3)

\* The pattern `([^`]+)` tried at position k: a backquote, one or more other
\* characters, a backquote.
InlineClose(s, k) == FirstOf(s, {j \in (k + 1)..Len(s) : CharAt(s, j) = Tick})
InlineMatchAt(s, k) ==
    CharAt(s, k) = Tick /\ InlineClose(s, k) > k + 1 /\ InlineClose(s, k) <= Len(s)

\* re.sub(r'`([^`]+)`', r'<code>\1</code>', text), from position i on.
RECURSIVE SubInlineCode(_, _)
SubInlineCode(s, i) ==
    LET k == FirstOf(s, {j \in i..Len(s) : InlineMatchAt(s, j)})
    IN IF k > Len(s) THEN Slice(s, i, Len(s) + 1)
       ELSE Slice(s, i, k)
            \o "<code>" \o Slice(s, k + 1, InlineClose(s, k)) \o "</code>"
            \o SubInlineCode(s, InlineClose(s, k) + 1)

\* The text branch.
RenderText(d) ==
    LET v == ItemText(d) IN
    IF v.t = "null" THEN ItemRaises                      \* escape(None)
    ELSE Parts(<< Fragment("text-content", "",
                    ReplaceNewlines(SubInlineCode(SubCodeBlocks(escape(v.s), 1), 1))) >>)

\* The body of `for item in content`: what the item appends to html_parts.
RenderItem(item) ==
    IF item.kind # "dict" THEN Parts(<<>>)
    ELSE LET d == item.d
             item_type == Get(d, "type", "") IN
         IF item_type = "text" THEN RenderText(d)
         ELSE IF item_type = "thinking" THEN RenderThinking(d)
         ELSE IF item_type = "tool_use" THEN RenderToolUse(d)
         ELSE IF item_type = "tool_result" THEN RenderToolResult(d)
         ELSE Parts(<<>>)

\* html_parts after the loop over the items, or the exception that ended it.
RECURSIVE RenderItems(_)
RenderItems(items) ==
    IF items = <<>> THEN Parts(<<>>)
    ELSE LET first == RenderItem(Head(items)) IN
         IF first.raised THEN ItemRaises
         ELSE LET rest == RenderItems(Tail(items)) IN
              IF rest.raised THEN ItemRaises ELSE Parts(first.parts \o rest.parts)

\* Variant: no placeholder for an empty html_parts.
JoinPartsNoPlaceholder(html_parts) == Returned(html_parts)

\* '\n'.join(html_parts) if html_parts else the placeholder: the fragments of
\* the returned HTML, in order.
JoinParts(html_parts) ==
    Returned(IF html_parts = <<>> THEN <<EmptyMessage>> ELSE html_parts)

render_message_content(c) ==
    IF c.kind = "str" THEN JoinParts(<<RenderString(c.s)>>)
    ELSE IF c.kind = "list"
    THEN LET r == RenderItems(c.items) IN
         IF r.raised THEN RaisedHtml ELSE JoinParts(r.parts)
    ELSE JoinParts(<<>>)

-----------------------------------------------------------------------------
(* The contents the renderer is applied to. *)

TextValues == {"", "hi", "a<b & \"c\"", "l1\nl2", "see ~x~ and ~~", "~~~py\nx = 1\n~~~ ~y"}

TextBlocks ==
    {Block([type |-> "text"]), Block([type |-> "text", text |-> None])}
        \cup {Block([type |-> "text", text |-> Str(t)]) : t \in TextValues}

\* Strings whose length is near n: n - Slack .. n + Slack characters of c,
\* then one of the suffixes.
NearLimit(c, n, suffixes) ==
    {Repeat(c, k) \o suf : k \in (n - Slack)..(n + Slack), suf \in suffixes}

ThinkingBlocks ==
    {Block([type |-> "thinking"]), Block([type |-> "thinking", thinking |-> None])}
        \cup {Block([type |-> "thinking", thinking |-> Str(t)]) :
                t \in {"", "x", "a<b\nc"} \cup NearLimit("a", ThinkingLimit, {"", "<"})}

ToolNames == KnownTools \cup {"X", "A&B"}

\* The length of json.dumps({"k": v}, indent=2) beyond that of v.
JsonOverhead == Len(json_dumps(Mapping(<< <<"k", "">> >>)))

ToolInputs ==
    { <<>>,
      << <<"command", "ls -la">>, <<"description", "list files">> >>,
      << <<"description", "">>, <<"command", "ls > x">> >>,
      << <<"command", "ls">> >>,
      << <<"file_path", "/a/b.py">> >>,
      << <<"pattern", "foo">>, <<"path", "src">> >>,
      << <<"pattern", "*.py">> >>,
      << <<"subagent_type", "Explore">>, <<"description", "find it">> >>,
      << <<"description", "only this">> >>,
      << <<"k", "a\"b\\c\nd">>, <<"command", "x">> >> }
        \cup { << <<"k", v>> >> : v \in NearLimit("a", ToolInputLimit - JsonOverhead, {""}) }

ToolUseBlocks ==
    {Block([type |-> "tool_use"]),
     Block([type |-> "tool_use", name |-> None]),
     Block([type |-> "tool_use", name |-> None, input |-> Mapping(<<>>)]),
     Block([type |-> "tool_use", input |-> None])}
        \cup {Block([type |-> "tool_use", name |-> Str(n)]) : n \in ToolNames}
        \cup {Block([type |-> "tool_use", name |-> Str(n), input |-> None]) : n \in ToolNames}
        \cup {Block([type |-> "tool_use", input |-> Mapping(p)]) : p \in ToolInputs}
        \cup {Block([type |-> "tool_use", name |-> Str(n), input |-> Mapping(p)]) :
                n \in ToolNames, p \in ToolInputs}

ToolResultBlocks ==
    {Block([type |-> "tool_result"]), Block([type |-> "tool_result", content |-> None])}
        \cup {Block([type |-> "tool_result", content |-> Str(t)]) :
                t \in {"ok", "<b>"} \cup NearLimit("r", ToolResultLimit, {""})}

UnknownBlocks ==
    {Block(EmptyDict), Block([type |-> "image"]), Block([text |-> Str("stray")])}

Items ==
    TextBlocks \cup ThinkingBlocks \cup ToolUseBlocks \cup ToolResultBlocks
        \cup UnknownBlocks \cup {BareString("bare"), BareString(""), OtherItem}

\* The items that longer lists are built from.
ListItems ==
    { Block([type |-> "text", text |-> Str("hi")]),
      Block([type |-> "text", text |-> None]),
      Block([type |-> "thinking", thinking |-> Str("x")]),
      Block([type |-> "tool_use", name |-> Str("Bash"),
             input |-> Mapping(<< <<"command", "ls">> >>)]),
      Block([type |-> "tool_result", content |-> Str("ok")]),
      Block([type |-> "image"]),
      BareString("bare") }

Contents ==
    {StrContent(s) : s \in {"", "plain", "a<b\nc", "(empty message)"}}
        \cup {OtherContent(w) : w \in {"dict", "number", "null"}}
        \cup {ListContent(<<>>)}
        \cup {ListContent(<<b>>) : b \in Items}
        \cup {ListContent(l) : l \in UNION {[1..k -> ListItems] : k \in 2..MaxBlocks}}

-----------------------------------------------------------------------------
(* parse_session *)

\* The state of one pass: the two locals, and whether an exception escaped.
PassState(msgs, info, raised) == [messages |-> msgs, session_info |-> info, raised |-> raised]

InitialPass == PassState(<<>>, EmptyDict, FALSE)

\* ... messages = [] ; session_info = {} ... the loop body, per decoded record.

\* Variant: only the first summary record is kept.
HandleSummaryFirstWins(info, data) ==
    IF "summary" \in DOMAIN info THEN info
    ELSE [x \in (DOMAIN info) \cup {"summary"} |->
            IF x = "summary" THEN (IF "summary" \in DOMAIN data THEN data.summary ELSE "")
            ELSE info[x]]

\* Variant: a summary entry is a record that carries a summary field.
IsSummaryEntryByField(data) == "summary" \in DOMAIN data

\* if data.get('type') == 'summary'
IsSummaryEntry(data) == HasKey(data, "type") /\ data.type = "summary"

\* session_info['summary'] = data.get('summary', '')
HandleSummary(info, data) == Put(info, "summary", Get(data, "summary", ""))

\* Variant: the discriminator comes first, message.role is the fallback.
ResolveRoleTypeFirst(data, msg) ==
    IF "type" \in DOMAIN data THEN data.type
    ELSE IF "role" \in DOMAIN msg THEN msg.role ELSE ""

\* role = msg.get('role', data.get('type', ''))
ResolveRole(data, msg) == Get(msg, "role", Get(data, "type", ""))

\* The dict appended to messages.
MakeMessage(data, msg) ==
    [role |-> ResolveRole(data, msg),
     content |-> Get(msg, "content", StrContent("")),
     timestamp |-> Get(data, "timestamp", ""),
     uuid |-> Get(data, "uuid", "")]

\* Variant: a record whose uuid was already seen is not appended.
AppendMessageDedup(msgs, m) ==
    IF \E j \in 1..Len(msgs) : msgs[j].uuid = m.uuid THEN msgs ELSE Append(msgs, m)

\* messages.append({...})
AppendMessage(msgs, m) == Append(msgs, m)

\* Variant: every emitted message overwrites the metadata (last wins).
CaptureMetadataAlways(info, data) ==
    [x \in (DOMAIN info) \cup {"sessionId", "cwd", "version"} |->
        IF x \in {"sessionId", "cwd", "version"}
        THEN (IF x \in DOMAIN data THEN data[x] ELSE "")
        ELSE info[x]]

\* if not session_info.get('sessionId'): capture sessionId, cwd, version
CaptureMetadata(info, data) ==
    IF Get(info, "sessionId", "") = ""
    THEN Put(Put(Put(info, "sessionId", Get(data, "sessionId", "")),
                 "cwd", Get(data, "cwd", "")),
             "version", Get(data, "version", ""))
    ELSE info

\* Variant: the decode error is not caught.
OnDecodeErrorRaises(st) == [st EXCEPT !.raised = TRUE]

\* except json.JSONDecodeError: continue
OnDecodeError(st) == st

\* An exception other than JSONDecodeError leaves the function.
Raise(st) == [st EXCEPT !.raised = TRUE]

\* The try block for one decoded JSON value `v`.
HandleRecord(st, v) ==
    IF v.t # "object"
    THEN Raise(st)                                   \* data.get: AttributeError
    ELSE LET data == v.o IN
         IF IsSummaryEntry(data)
         THEN [st EXCEPT !.session_info = HandleSummary(st.session_info, data)]
         ELSE IF HasKey(data, "type") /\ data.type \in {"file-history-snapshot"}
         THEN st
         ELSE LET m == Get(data, "message", Object(EmptyDict)) IN
              IF m.t = "null" \/ (m.t = "object" /\ DOMAIN m.o = {})
              THEN st                                \* if not msg: continue
              ELSE IF m.t # "object"
              THEN Raise(st)                         \* msg.get: AttributeError
              ELSE LET msg == m.o IN
                   IF ResolveRole(data, msg) \in {"user", "assistant"}
                   THEN [st EXCEPT
                           !.messages = AppendMessage(st.messages, MakeMessage(data, msg)),
                           !.session_info = CaptureMetadata(st.session_info, data)]
                   ELSE st

\* One iteration of `for line in f`.
ParseLine(st, line) ==
    IF line.kind = "blank" THEN st                   \* if not line: continue
    ELSE IF line.kind = "invalid" THEN OnDecodeError(st)
    ELSE HandleRecord(st, line.value)

\* The whole pass over a file holding the lines ls.
RECURSIVE ParseFrom(_, _)
ParseFrom(st, ls) ==
    IF st.raised \/ ls = <<>> THEN st
    ELSE ParseFrom(ParseLine(st, Head(ls)), Tail(ls))

\* What the caller gets: the pair returned, or the exception.
Outcome(st) == IF st.raised THEN <<"raised">> ELSE <<"returned", st.messages, st.session_info>>

parse_session(ls) == Outcome(ParseFrom(InitialPass, ls))

-----------------------------------------------------------------------------
(* The values of the variables of a part of the program that is not running. *)

\* get_all_sessions not called yet.
NotListed == [called |-> FALSE, list |-> <<>>]

\* No request being handled, no response given.
Idle == [pc |-> "idle"]
NoResponse == [status |-> 0]

ParserIdle ==
    lines = <<>> /\ pc = "idle" /\ messages = <<>> /\ session_info = EmptyDict
RendererIdle == content = NoContent /\ plain = NotCalledPlain /\ html = NotCalledHtml
IndexerIdle == files = <<>> /\ sessions = NotListed
ServerIdle == request = Idle /\ response = NoResponse /\ served = NoResponse
PassesIdle == passes = <<>>

-----------------------------------------------------------------------------
(* The pass as a state machine: one step per line of the file. *)

Current == PassState(messages, session_info, pc = "raised")

ParseInit ==
    /\ lines = <<>>
    /\ pc = "reading"
    /\ messages = <<>>
    /\ session_info = EmptyDict
    /\ content = NoContent
    /\ plain = NotCalledPlain
    /\ html = NotCalledHtml
    /\ IndexerIdle /\ ServerIdle /\ PassesIdle

\* The loop reads the next line and handles it without an exception.
ReadLine ==
    /\ pc = "reading"
    /\ Len(lines) < MaxLines
    /\ \E line \in TranscriptLines :
          LET st == ParseLine(Current, line) IN
          /\ ~st.raised
          /\ lines' = Append(lines, line)
          /\ messages' = st.messages
          /\ session_info' = st.session_info
    /\ pc' = "reading"
    /\ UNCHANGED <<content, plain, html, indexVars, serveVars, passes>>

\* The loop reads a line whose handling raises: the exception leaves the function.
RaiseOnLine ==
    /\ pc = "reading"
    /\ Len(lines) < MaxLines
    /\ \E line \in TranscriptLines :
          /\ ParseLine(Current, line).raised
          /\ lines' = Append(lines, line)
    /\ pc' = "raised"
    /\ UNCHANGED <<messages, session_info, content, plain, html, indexVars, serveVars, passes>>

\* End of file: return messages, session_info.
Return ==
    /\ pc = "reading"
    /\ pc' = "done"
    /\ UNCHANGED <<lines, messages, session_info, content, plain, html,
                   indexVars, serveVars, passes>>

Next == ReadLine \/ RaiseOnLine \/ Return

Spec == ParseInit /\ [][Next]_vars

-----------------------------------------------------------------------------
(* The renderer applied to one message content: the two entry points, each   *)
(* called once, in either order.                                             *)

RenderInit ==
    /\ content \in Contents
    /\ plain = NotCalledPlain
    /\ html = NotCalledHtml
    /\ lines = <<>>
    /\ pc = "idle"
    /\ messages = <<>>
    /\ session_info = EmptyDict
    /\ IndexerIdle /\ ServerIdle /\ PassesIdle

\* extract_text_content(content)
ExtractText ==
    /\ content.kind # "none"
    /\ plain.status = "none"
    /\ plain' = extract_text_content(content)
    /\ UNCHANGED <<content, html, lines, pc, messages, session_info,
                   indexVars, serveVars, passes>>

\* render_message_content(content)
RenderContent ==
    /\ content.kind # "none"
    /\ html.status = "none"
    /\ html' = render_message_content(content)
    /\ UNCHANGED <<content, plain, lines, pc, messages, session_info,
                   indexVars, serveVars, passes>>

RenderNext == ExtractText \/ RenderContent

RenderSpec == RenderInit /\ [][RenderNext]_vars

-----------------------------------------------------------------------------
(* get_all_sessions. A transcript file is projects/<dir>/<id>.jsonl; `files`  *)
(* lists the files in the order iterdir and glob give them. The size of a     *)
(* file is counted in lines.                                                  *)

MaxFiles == 3       \* transcript files under projects/
MaxMtime == 2       \* modification times range over 1..MaxMtime

File(dir, id, mtime, ls) ==
    [dir |-> dir, id |-> id, mtime |-> mtime, size |-> Len(ls), lines |-> ls]

\* session_file, the path of a file.
PathOf(f) == <<f.dir, f.id>>

\* project_dir.name.replace('-', '/')
RECURSIVE ReplaceDashes(_)
ReplaceDashes(s) ==
    IF Len(s) = 0 THEN ""
    ELSE IF Len(s) = 1 THEN (IF s = "-" THEN "/" ELSE s)
    ELSE LET h == Len(s) \div 2 IN
         ReplaceDashes(SubSeq(s, 1, h)) \o ReplaceDashes(SubSeq(s, h + 1, Len(s)))

\* The length above which a preview is cut.
PreviewLimit == 150

\* Variant: no file name is skipped.
SkippedStemNone(session_id) == FALSE

\* if session_id == 'sessions-index': continue
SkippedStem(session_id) == session_id = "sessions-index"

\* first_msg = messages[0].get('content', ''), extracted when it is a list:
\* a str (held as StrContent), the content itself when it is of another
\* type, or the exception of extract_text_content.
FirstMessage(msgs) ==
    LET first_msg == msgs[1].content IN
    IF first_msg.kind = "list"
    THEN LET text == extract_text_content(first_msg) IN
         IF text.status = "raised" THEN text ELSE Returned(StrContent(text.value))
    ELSE Returned(first_msg)

\* preview = first_msg[:150] + '...' if len(first_msg) > 150 else first_msg
\* A dict holds fewer than 150 keys here; len of a number or None is a TypeError.
Preview(first_msg) ==
    IF first_msg.kind = "str"
    THEN Returned(IF Len(first_msg.s) > PreviewLimit
                  THEN StrContent(Prefix(first_msg.s, PreviewLimit) \o "...")
                  ELSE first_msg)
    ELSE IF first_msg.s = "dict" THEN Returned(first_msg)
    ELSE RaisedPlain

\* The dict appended to sessions.
SessionSummary(f, msgs, info, preview) ==
    [id |-> f.id,
     project |-> ReplaceDashes(f.dir),
     path |-> PathOf(f),
     modified |-> f.mtime,
     size |-> f.size,
     message_count |-> Len(msgs),
     preview |-> preview,
     summary |-> Get(info, "summary", "")]

\* The try block for one session file: what it appends to sessions. Any
\* exception is caught and the file is passed over.
SessionOf(f) ==
    LET parsed == ParseFrom(InitialPass, f.lines) IN
    IF parsed.raised THEN <<>>                       \* except Exception: continue
    ELSE IF parsed.messages = <<>> THEN <<>>         \* if messages:
    ELSE LET first_msg == FirstMessage(parsed.messages) IN
         IF first_msg.status = "raised" THEN <<>>
         ELSE LET preview == Preview(first_msg.value) IN
              IF preview.status = "raised" THEN <<>>
              ELSE << SessionSummary(f, parsed.messages, parsed.session_info,
                                     preview.value) >>

\* sessions after the loops over the project directories and their files.
RECURSIVE ScanFiles(_)
ScanFiles(fs) ==
    IF fs = <<>> THEN <<>>
    ELSE (IF SkippedStem(Head(fs).id) THEN <<>> ELSE SessionOf(Head(fs)))
            \o ScanFiles(Tail(fs))

\* Variant: a session goes before the sessions of equal modification time.
RECURSIVE InsertBeforeEqual(_, _)
InsertBeforeEqual(sorted, s) ==
    IF sorted = <<>> THEN <<s>>
    ELSE IF Head(sorted).modified > s.modified
    THEN <<Head(sorted)>> \o InsertBeforeEqual(Tail(sorted), s)
    ELSE <<s>> \o sorted

\* list.sort is stable, with reverse=True as well: a session goes after every
\* session whose modification time is greater or equal.
RECURSIVE InsertByModified(_, _)
InsertByModified(sorted, s) ==
    IF sorted = <<>> THEN <<s>>
    ELSE IF Head(sorted).modified >= s.modified
    THEN <<Head(sorted)>> \o InsertByModified(Tail(sorted), s)
    ELSE <<s>> \o sorted

\* sessions.sort(key=lambda x: x['modified'], reverse=True)
RECURSIVE SortByModified(_)
SortByModified(ss) ==
    IF ss = <<>> THEN <<>>
    ELSE InsertByModified(SortByModified(SubSeq(ss, 1, Len(ss) - 1)), ss[Len(ss)])

get_all_sessions(fs) == SortByModified(ScanFiles(fs))

-----------------------------------------------------------------------------
(* The file systems get_all_sessions is applied to. *)

UserLine(c) ==
    JsonLine(Object([type |-> "user", sessionId |-> "s1",
                     message |-> Object([role |-> "user", content |-> c])]))

AssistantLine(c) ==
    JsonLine(Object([type |-> "assistant", sessionId |-> "s1",
                     message |-> Object([role |-> "assistant", content |-> c])]))

SummaryLine(text) == JsonLine(Object([type |-> "summary", summary |-> text]))

Hello == <<UserLine(StrContent("hello"))>>

\* Transcripts that differ in what their first message holds, and in what
\* follows it.
CatalogTranscripts ==
    { <<>>,
      <<SummaryLine("S1")>>,
      <<JsonLine(JsonNumber), UserLine(StrContent("hello"))>>,
      Hello,
      Hello \o <<AssistantLine(StrContent("later"))>>,
      Hello \o <<AssistantLine(ListContent(<<Block([type |-> "text", text |-> Str("hi")])>>))>>,
      <<SummaryLine("S1"), UserLine(StrContent(""))>>,
      <<JsonLine(Object([type |-> "user", message |-> Object([role |-> "user"])]))>>,
      <<UserLine(ListContent(<<>>))>>,
      <<UserLine(ListContent(<<Block([type |-> "text", text |-> Str("hi")]),
                               Block([type |-> "thinking", thinking |-> Str("x")])>>))>>,
      <<UserLine(ListContent(<<Block([type |-> "text", text |-> Str(Repeat("q", 100))]),
                               BareString(Repeat("q", 50))>>))>>,
      <<UserLine(ListContent(<<Block([type |-> "text", text |-> None])>>))>> }
        \cup { <<UserLine(StrContent(t))>> : t \in NearLimit("p", PreviewLimit, {""}) }
        \cup { <<UserLine(OtherContent(w))>> : w \in {"dict", "number", "null"} }

Stems == {"ab", "abc", "b", "sessions-index"}

\* The names of k files of one directory, in the order of discovery.
DistinctStems(k) == {ids \in [1..k -> Stems] : \A i, j \in 1..k : ids[i] = ids[j] => i = j}

\* The files of one directory with these names, modification times and
\* transcripts.
Directory(ids, ms, ts) == [i \in 1..Len(ids) |-> File("-a-b", ids[i], ms[i], ts[i])]

\* Each transcript, discovered before an ordinary one.
PreviewFileSystems ==
    { <<File(d, "ab", MaxMtime, t), File(d, "abc", 1, Hello)>> :
        d \in {"-a-b", "-c"}, t \in CatalogTranscripts }

\* Up to MaxFiles files of distinct names, in any order and with any
\* modification times, each empty or holding one message; or one of the
\* file systems above.
CatalogInit ==
    /\ \/ \E k \in 0..MaxFiles :
             \E ids \in DistinctStems(k), ms \in [1..k -> 1..MaxMtime],
                ts \in [1..k -> {<<>>, Hello}] :
                 files = Directory(ids, ms, ts)
       \/ files \in PreviewFileSystems
    /\ sessions = NotListed
    /\ ParserIdle /\ RendererIdle /\ ServerIdle /\ PassesIdle

\* sessions = get_all_sessions(claude_dir)
GetAllSessions ==
    /\ ~sessions.called
    /\ sessions' = [called |-> TRUE, list |-> get_all_sessions(files)]
    /\ UNCHANGED <<files, lines, pc, messages, session_info, content, plain, html,
                   serveVars, passes>>

CatalogNext == GetAllSessions

CatalogSpec == CatalogInit /\ [][CatalogNext]_vars

-----------------------------------------------------------------------------
(* The live server: LiveChatHandler. The pages are the records of the values *)
(* interpolated into their templates; what an index entry shows of the time  *)
(* and the size of a session is left out.                                    *)

\* s.replace(pat, '')
RECURSIVE Remove(_, _)
Remove(s, pat) ==
    IF Len(s) < Len(pat) THEN s
    ELSE IF StartsWithAt(s, 1, pat) THEN Remove(SubSeq(s, Len(pat) + 1, Len(s)), pat)
    ELSE SubSeq(s, 1, 1) \o Remove(SubSeq(s, 2, Len(s)), pat)

\* sub in s
Contains(s, sub) == \E i \in 1..(Len(s) + 1) : StartsWithAt(s, i, sub)

\* str.lower(), on ASCII text
LowerChar(c) ==
    LET upper == "ABCDEFGHIJKLMNOPQRSTUVWXYZ"
        lower == "abcdefghijklmnopqrstuvwxyz"
    IN IF \E i \in 1..Len(upper) : CharAt(upper, i) = c
       THEN CharAt(lower, CHOOSE i \in 1..Len(upper) : CharAt(upper, i) = c)
       ELSE c

RECURSIVE Lower(_)
Lower(s) ==
    IF Len(s) <= 1 THEN LowerChar(s)
    ELSE LET h == Len(s) \div 2 IN
         Lower(SubSeq(s, 1, h)) \o Lower(SubSeq(s, h + 1, Len(s)))

\* render_session_html: the title, the meta line and one part per message;
\* an exception of render_message_content leaves the function.
render_session_html(msgs, info, session_id) ==
    IF \E i \in 1..Len(msgs) : render_message_content(msgs[i].content).status = "raised"
    THEN RaisedHtml
    ELSE Returned([title |-> escape(Get(info, "summary", "Session " \o Prefix(session_id, 8))),
                   cwd |-> escape(Get(info, "cwd", "")),
                   sessionId |-> Prefix(Get(info, "sessionId", ""), 8),
                   count |-> Len(msgs),
                   parts |-> [i \in 1..Len(msgs) |->
                                [role |-> msgs[i].role,
                                 content |-> render_message_content(msgs[i].content).value]]])

\* render_session_list(sessions, is_live=True): one entry per session;
\* preview.lower() raises when the preview is not a str.
render_session_list(ss) ==
    IF \E i \in 1..Len(ss) : ss[i].preview.kind # "str"
    THEN RaisedHtml
    ELSE Returned([i \in 1..Len(ss) |->
                     [href |-> "/session/" \o ss[i].id,
                      title |-> escape(IF ss[i].summary # "" THEN ss[i].summary
                                       ELSE "Session " \o Prefix(ss[i].id, 12)),
                      project |-> escape(ss[i].project),
                      count |-> ss[i].message_count,
                      preview |-> escape(ss[i].preview.s),
                      data_preview |-> escape(Lower(ss[i].preview.s))]])

\* What the client gets for the request of `path`: a status and a body, or
\* nothing when an exception left the handler.
Response(path, status, body) == [path |-> path, status |-> status, body |-> body]
Dropped(path) == [path |-> path, status |-> 0]

\* _send_html(html), for the html a callee returned or failed to return
SendHtml(path, page) ==
    IF page.status = "raised" THEN Dropped(path) ELSE Response(path, 200, page.value)

\* matching = [s for s in sessions if session_id in s['id']]
Matching(ss, session_id) ==
    LET Matches(x) == Contains(x.id, session_id) IN SelectSeq(ss, Matches)

\* session_id = path.replace('/session/', '').replace('.html', '')
SessionIdOf(path) == Remove(Remove(path, "/session/"), ".html")

\* The file at a path, as it is now.
FileAt(fs, path) == fs[CHOOSE k \in 1..Len(fs) : PathOf(fs[k]) = path]

\* Variant: the response given last to the same path is given again.
RespondFromCache(last, fresh) ==
    IF "path" \in DOMAIN last /\ last.path = fresh.path THEN last ELSE fresh

\* The handler keeps nothing of an earlier response: what is sent is what
\* this request computed.
Respond(last, fresh) == fresh

-----------------------------------------------------------------------------
(* The live server as a state machine: the transcripts change while the     *)
(* server answers requests, one at a time. serve_session reads the files     *)
(* twice, for the catalog and for the session it chose; a file may change    *)
(* in between.                                                               *)

RequestPaths ==
    {"/", "/session/ab", "/session/b.html", "/session/zz", "/favicon.ico", "/style.css"}

ServerTranscripts ==
    { <<>>,
      Hello,
      <<SummaryLine("S1")>> \o Hello \o <<AssistantLine(StrContent("later"))>>,
      Hello \o <<JsonLine(JsonNumber)>> }

\* Two files, ab.jsonl discovered before abc.jsonl.
ServerFileSystems ==
    { <<File("-a-b", "ab", ms[1], ts[1]), File("-a-b", "abc", ms[2], ts[2])>> :
        ms \in [1..2 -> 1..MaxMtime],
        ts \in [1..2 -> ServerTranscripts] }

ServerInit ==
    /\ files \in ServerFileSystems
    /\ sessions = NotListed
    /\ ServerIdle
    /\ ParserIdle /\ RendererIdle /\ PassesIdle

\* Another process rewrites a transcript, at a time that is not before the
\* modification time of any file. A request being handled has then seen a
\* file change.
ModifyFile ==
    /\ \E k \in 1..Len(files), ls \in ServerTranscripts, now \in 1..MaxMtime :
          /\ ls # files[k].lines
          /\ \A j \in 1..Len(files) : now >= files[j].mtime
          /\ files' = [files EXCEPT ![k] = File(files[k].dir, files[k].id, now, ls)]
    /\ request' = IF request.pc = "idle" THEN request ELSE [request EXCEPT !.touched = TRUE]
    /\ served' = NoResponse
    /\ UNCHANGED <<sessions, response, lines, pc, messages, session_info,
                   content, plain, html, passes>>

\* do_GET up to the response, or, for a session that was found, up to the
\* choice of the session (serve_session down to session = matching[0]).
do_GET ==
    /\ request.pc = "idle"
    /\ LET listed == get_all_sessions(files) IN
       \E path \in RequestPaths :
          LET session_id == SessionIdOf(path)
              matching == Matching(listed, session_id)
              fresh == IF path \in {"/", "/index.html"}
                       THEN SendHtml(path, render_session_list(listed))
                       ELSE IF StartsWithAt(path, 1, "/session/")
                       THEN Response(path, 404, "Session " \o session_id \o " not found")
                       ELSE IF path = "/favicon.ico" THEN Response(path, 204, "")
                       ELSE Response(path, 404, "")
          IN IF StartsWithAt(path, 1, "/session/") /\ matching # <<>>
             THEN /\ request' = [pc |-> "parsing", path |-> path, session_id |-> session_id,
                                 session |-> matching[1], touched |-> FALSE]
                  /\ sessions' = [called |-> TRUE, list |-> listed]
                  /\ UNCHANGED <<response, served>>
             ELSE /\ response' = Respond(response, fresh)
                  /\ served' = response'
                  /\ UNCHANGED <<request, sessions>>
    /\ UNCHANGED <<files, lines, pc, messages, session_info, content, plain, html, passes>>

\* serve_session from parse_session(session['path']) to the response.
ServeSession ==
    /\ request.pc = "parsing"
    /\ LET parsed == ParseFrom(InitialPass, FileAt(files, request.session.path).lines)
           fresh == IF parsed.raised THEN Dropped(request.path)
                    ELSE SendHtml(request.path,
                                  render_session_html(parsed.messages, parsed.session_info,
                                                      request.session.id))
       IN /\ response' = Respond(response, fresh)
          /\ served' = IF request.touched THEN NoResponse ELSE response'
    /\ request' = Idle
    /\ sessions' = NotListed
    /\ UNCHANGED <<files, lines, pc, messages, session_info, content, plain, html, passes>>

ServerNext == ModifyFile \/ do_GET \/ ServeSession

ServerSpec == ServerInit /\ [][ServerNext]_vars

-----------------------------------------------------------------------------
(* Calls of parse_session running side by side: each call has its own      *)
(* frame, and the steps of the calls are taken in any order.                *)

MaxPassLines == 2   \* lines per transcript of a pass

\* The functions that call parse_session.
Callers == {"get_all_sessions", "serve_session"}

\* Lines that change the accumulators in different ways, and one that raises.
PassLines ==
    { JsonLine(Object(MessageRecord("user", "u1",
                                    [sessionId |-> "s1", cwd |-> "/a", version |-> "v1"]))),
      JsonLine(Object(MessageRecord("assistant", "u2",
                                    [sessionId |-> "s2", cwd |-> "/b", version |-> "v2"]))),
      JsonLine(Object(MessageRecord("user", "u1",
                                    [sessionId |-> "", cwd |-> "/a", version |-> "v1"]))),
      JsonLine(Object([type |-> "summary", summary |-> "S1", leafUuid |-> "u1"])),
      JsonLine(JsonNumber) }

\* The frame of a call: the lines read so far, the locals messages and
\* session_info, where the call is, and whether another call has taken a step
\* since this one read its first line.
Frame(ls, st, at, mixed) == [lines |-> ls, st |-> st, pc |-> at, interleaved |-> mixed]

\* Variant: messages and session_info are shared by all the calls.
LocalsShared(ps, c) ==
    IF "get_all_sessions" \in DOMAIN ps THEN ps["get_all_sessions"].st ELSE ps[c].st

\* messages = [] ; session_info = {} are locals of the call.
Locals(ps, c) == ps[c].st

\* The frames of the other calls after a step of call c.
Others(ps, c) ==
    [d \in DOMAIN ps |->
        IF d # c /\ ps[d].pc = "reading" /\ ps[d].lines # <<>>
        THEN [ps[d] EXCEPT !.interleaved = TRUE] ELSE ps[d]]

PassesInit ==
    /\ passes = <<>>
    /\ ParserIdle /\ RendererIdle /\ IndexerIdle /\ ServerIdle

\* A caller calls parse_session.
StartPass ==
    /\ \E c \in Callers \ DOMAIN passes :
          passes' = Put(Others(passes, c), c, Frame(<<>>, InitialPass, "reading", FALSE))
    /\ UNCHANGED <<lines, pc, messages, session_info, content, plain, html, indexVars, serveVars>>

\* A call reads its next line and handles it without an exception.
PassReadLine ==
    /\ \E c \in DOMAIN passes, line \in PassLines :
          LET st == ParseLine(Locals(passes, c), line) IN
          /\ passes[c].pc = "reading"
          /\ Len(passes[c].lines) < MaxPassLines
          /\ ~st.raised
          /\ passes' = Put(Others(passes, c), c,
                           Frame(Append(passes[c].lines, line), st, "reading",
                                 passes[c].interleaved))
    /\ UNCHANGED <<lines, pc, messages, session_info, content, plain, html, indexVars, serveVars>>

\* A call reads a line whose handling raises.
PassRaiseOnLine ==
    /\ \E c \in DOMAIN passes, line \in PassLines :
          /\ passes[c].pc = "reading"
          /\ Len(passes[c].lines) < MaxPassLines
          /\ ParseLine(Locals(passes, c), line).raised
          /\ passes' = Put(Others(passes, c), c,
                           Frame(Append(passes[c].lines, line), passes[c].st, "raised",
                                 passes[c].interleaved))
    /\ UNCHANGED <<lines, pc, messages, session_info, content, plain, html, indexVars, serveVars>>

\* End of file: the call returns messages, session_info.
PassReturn ==
    /\ \E c \in DOMAIN passes :
          /\ passes[c].pc = "reading"
          /\ passes' = Put(Others(passes, c), c, [passes[c] EXCEPT !.pc = "done"])
    /\ UNCHANGED <<lines, pc, messages, session_info, content, plain, html, indexVars, serveVars>>

PassesNext == StartPass \/ PassReadLine \/ PassRaiseOnLine \/ PassReturn

PassesSpec == PassesInit /\ [][PassesNext]_vars

-----------------------------------------------------------------------------
(* Properties of parse_session. *)

IsRecord(line) == line.kind = "json" /\ line.value.t = "object"

\* The role the normalizer resolves for a line: message.role, else the record's
\* discriminator; "none" for a line that never reaches role resolution (not a
\* record, a summary or file-history-snapshot record, no or empty message).
ResolvedRoleOf(line) ==
    IF ~IsRecord(line) THEN "none"
    ELSE LET data == line.value.o IN
         IF "type" \in DOMAIN data /\ data.type \in {"summary", "file-history-snapshot"}
         THEN "none"
         ELSE IF "message" \notin DOMAIN data THEN "none"
         ELSE IF data.message.t # "object" \/ DOMAIN data.message.o = {} THEN "none"
         ELSE IF "role" \in DOMAIN data.message.o THEN data.message.o.role
         ELSE IF "type" \in DOMAIN data THEN data.type
         ELSE ""

BecomesMessage(line) == ResolvedRoleOf(line) \in {"user", "assistant"}

\* The positions of the lines read so far that become Messages.
MessageLines == {k \in 1..Len(lines) : BecomesMessage(lines[k])}

\* The position of the j-th such line.
NthMessageLine(j) ==
    CHOOSE k \in MessageLines : Cardinality({x \in MessageLines : x <= k}) = j

FieldOr(d, k) == IF k \in DOMAIN d THEN d[k] ELSE ""

\* C1: the Message list returned by parse_session is exactly the subsequence of
\* the records whose resolved role is user or assistant, in line order: as many
\* messages as such records, the j-th message built from the j-th such record,
\* records with equal uuid all kept.
C1_MessagesAreRoleSubsequence ==
    pc = "done" =>
        /\ Len(messages) = Cardinality(MessageLines)
        /\ \A j \in 1..Len(messages) :
              LET data == lines[NthMessageLine(j)].value.o IN
              /\ messages[j].role = ResolvedRoleOf(lines[NthMessageLine(j)])
              /\ messages[j].content = Get(data.message.o, "content", StrContent(""))
              /\ messages[j].uuid = FieldOr(data, "uuid")
              /\ messages[j].timestamp = FieldOr(data, "timestamp")

\* Two messages with the same uuid were kept, around a record that was dropped.
C1_Witness ==
    /\ pc = "done"
    /\ Len(lines) = 3
    /\ Len(messages) = 2
    /\ messages[1].uuid = messages[2].uuid
    /\ messages[1].role # messages[2].role
    /\ IsRecord(lines[2]) /\ ~BecomesMessage(lines[2])

\* The metadata triple held by session_info ('' for a key not set).
Metadata(info) == <<FieldOr(info, "sessionId"), FieldOr(info, "cwd"), FieldOr(info, "version")>>

\* C2: after normalizing, sessionId, cwd and version are those carried by the
\* record of the first emitted Message, also when that record's sessionId is
\* empty or missing and later records carry other values.
C2_MetadataFromFirstMessage ==
    (pc = "done" /\ messages # <<>>) =>
        Metadata(session_info) = Metadata(lines[NthMessageLine(1)].value.o)

\* C3: once session_info holds a non-empty sessionId, no later line changes
\* sessionId, cwd or version.
C3_MetadataFrozenOnceCaptured ==
    [][FieldOr(session_info, "sessionId") # "" =>
          Metadata(session_info') = Metadata(session_info)]_vars

\* A later message record carrying other metadata was read after the capture.
C3_Witness ==
    /\ Len(lines) >= 2
    /\ BecomesMessage(lines[1])
    /\ FieldOr(lines[1].value.o, "sessionId") = "s1"
    /\ BecomesMessage(lines[Len(lines)])
    /\ Metadata(lines[Len(lines)].value.o) = <<"s2", "/b", "v2">>
    /\ Metadata(session_info) = <<"s1", "/a", "v1">>

IsSummaryRecord(line) ==
    IsRecord(line) /\ "type" \in DOMAIN line.value.o /\ line.value.o.type = "summary"

SummaryLines == {k \in 1..Len(lines) : IsSummaryRecord(lines[k])}

FirstSummaryLine == CHOOSE k \in SummaryLines : \A x \in SummaryLines : k <= x
LastSummaryLine == CHOOSE k \in SummaryLines : \A x \in SummaryLines : x <= k

\* C4 as claimed: with several summary records, the transcript's summary is
\* that of the first one in line order.
C4_FirstSummaryWins ==
    (pc = "done" /\ SummaryLines # {}) =>
        FieldOr(session_info, "summary") = FieldOr(lines[FirstSummaryLine].value.o, "summary")

\* C4 amended: the transcript's summary is that of the last summary record in
\* line order; every summary record overwrites the one before.
C4_LastSummaryWins ==
    (pc = "done" /\ SummaryLines # {}) =>
        FieldOr(session_info, "summary") = FieldOr(lines[LastSummaryLine].value.o, "summary")

\* Two summary records with different summaries were read.
C4_Witness ==
    /\ pc = "done"
    /\ Cardinality(SummaryLines) >= 2
    /\ FieldOr(lines[FirstSummaryLine].value.o, "summary") = "S1"
    /\ FieldOr(lines[LastSummaryLine].value.o, "summary") = "S2"
    /\ FieldOr(session_info, "summary") = "S2"

\* The sequence s without its k-th element.
RemoveAt(s, k) == SubSeq(s, 1, k - 1) \o SubSeq(s, k + 1, Len(s))

\* C5: a line of invalid JSON, anywhere in the transcript, is skipped without
\* raising: the outcome is that of the same transcript without the line.
C5_InvalidLineSkipped ==
    /\ pc = "raised" => lines[Len(lines)].kind # "invalid"
    /\ pc \in {"done", "raised"} =>
          \A k \in 1..Len(lines) :
              lines[k].kind = "invalid" =>
                  Outcome(Current) = parse_session(RemoveAt(lines, k))

\* An invalid line was read between two message records, after the capture.
C5_Witness ==
    /\ pc = "done"
    /\ Len(lines) = 3
    /\ lines[2].kind = "invalid"
    /\ Len(messages) = 2
    /\ FieldOr(session_info, "sessionId") # ""

\* The line read by the step, when the step reads one.
ReadsLine == Len(lines') = Len(lines) + 1
LineRead == lines'[Len(lines')]

CarriesSummary(line) == IsRecord(line) /\ "summary" \in DOMAIN line.value.o

\* The record d without the key k.
Without(d, k) == [x \in (DOMAIN d) \ {k} |-> d[x]]

\* C17 as claimed: every record that carries a summary field contributes its
\* summary to the metadata and emits no Message, whatever its discriminator and
\* whether or not it carries a user/assistant message.
C17_SummaryFieldContributes ==
    [][(ReadsLine /\ CarriesSummary(LineRead)) =>
          /\ messages' = messages
          /\ session_info' = Put(session_info, "summary", LineRead.value.o.summary)]_vars

\* C17 amended: a record contributes a summary exactly when its discriminator
\* (type) is summary: it then sets the summary to its summary field ('' when it
\* has none) and emits no Message, whether or not it carries a message. A
\* record of another discriminator that carries a summary field contributes no
\* summary and is handled as the same record without the field.
C17_SummaryByDiscriminator ==
    [][ReadsLine =>
          /\ IsSummaryRecord(LineRead) =>
                /\ messages' = messages
                /\ session_info' =
                      Put(session_info, "summary", FieldOr(LineRead.value.o, "summary"))
          /\ (CarriesSummary(LineRead) /\ ~IsSummaryRecord(LineRead)) =>
                /\ FieldOr(session_info', "summary") = FieldOr(session_info, "summary")
                /\ PassState(messages', session_info', pc' = "raised") =
                      ParseLine(Current,
                                JsonLine(Object(Without(LineRead.value.o, "summary"))))]_vars

\* A user record that carries a summary field was read: it became a Message
\* and left no summary.
C17_Witness ==
    /\ Len(lines) = 1
    /\ CarriesSummary(lines[1]) /\ FieldOr(lines[1].value.o, "type") = "user"
    /\ Len(messages) = 1 /\ messages[1].content = StrContent("c4")
    /\ "summary" \notin DOMAIN session_info

\* A record whose message is a non-empty mapping, of a discriminator other
\* than summary and file-history-snapshot.
HasMessageMapping(line) ==
    /\ IsRecord(line)
    /\ FieldOr(line.value.o, "type") \notin {"summary", "file-history-snapshot"}
    /\ "message" \in DOMAIN line.value.o
    /\ line.value.o.message.t = "object"
    /\ DOMAIN line.value.o.message.o # {}

\* C18: for a record with a non-empty message, the role is message.role when
\* the key is present and else the record's type; the record is emitted as a
\* Message with that role when the role is user or assistant, and dropped
\* otherwise: in particular a type of user or assistant does not save a record
\* whose message.role is something else.
C18_RoleResolution ==
    [][(ReadsLine /\ HasMessageMapping(LineRead)) =>
          LET data == LineRead.value.o
              msg == data.message.o
              role == IF "role" \in DOMAIN msg THEN msg.role ELSE FieldOr(data, "type")
          IN IF role \in {"user", "assistant"}
             THEN /\ Len(messages') = Len(messages) + 1
                  /\ SubSeq(messages', 1, Len(messages)) = messages
                  /\ messages'[Len(messages')].role = role
             ELSE messages' = messages]_vars

\* A user record without message.role was emitted as a user Message, then a
\* user record whose message.role is tool was dropped.
C18_Witness ==
    /\ Len(lines) = 2
    /\ HasMessageMapping(lines[1]) /\ HasMessageMapping(lines[2])
    /\ FieldOr(lines[1].value.o, "type") = "user"
    /\ "role" \notin DOMAIN lines[1].value.o.message.o
    /\ FieldOr(lines[2].value.o, "type") = "user"
    /\ FieldOr(lines[2].value.o.message.o, "role") = "tool"
    /\ Len(messages) = 1 /\ messages[1].role = "user" /\ messages[1].uuid = "u3"

\* A line of valid JSON whose shape is not that of a record: not an object, or
\* an object whose message is not a mapping.
Misshapen(line) ==
    /\ line.kind = "json"
    /\ \/ line.value.t # "object"
       \/ /\ "message" \in DOMAIN line.value.o
          /\ line.value.o.message.t # "object"

WellShaped(line) == ~Misshapen(line)

\* C19: parse_session never aborts because of the shape of one line: a line of
\* valid JSON that is not an object, or an object whose message is not a
\* mapping, is skipped, and the pass returns what the other lines give.
C19_MisshapenLineSkipped ==
    /\ pc # "raised"
    /\ pc = "done" =>
          <<"returned", messages, session_info>> = parse_session(SelectSeq(lines, WellShaped))

-----------------------------------------------------------------------------
(* Properties of the content renderer. *)

ExtractCalled == plain.status # "none"
RenderCalled == html.status # "none"

\* C6 as claimed: for content that is neither a string nor a list, plain-text
\* extraction and formatted rendering raise; neither returns a normal result.
C6_OtherContentRaises ==
    content.kind = "other" =>
        /\ ExtractCalled => plain.status = "raised"
        /\ RenderCalled => html.status = "raised"

\* C6 amended: for content that is neither a string nor a list, plain-text
\* extraction returns the empty string and formatted rendering returns the
\* empty-message placeholder; neither raises.
C6_OtherContentDefaults ==
    content.kind = "other" =>
        /\ ExtractCalled => (plain.status = "returned" /\ plain.value = "")
        /\ RenderCalled =>
              (html.status = "returned" /\ html.value = <<EmptyMessage>>)

\* Both entry points were applied to a content that is a mapping.
C6_Witness ==
    /\ content.kind = "other" /\ content.s = "dict"
    /\ ExtractCalled /\ RenderCalled

\* Every field a block carries has the type the data model gives it.
WellTypedBlock(d) ==
    /\ \A k \in {"text", "thinking", "name", "content"} \cap DOMAIN d : d[k].t = "string"
    /\ "input" \in DOMAIN d => d.input.t = "object"

WellTyped(c) ==
    /\ c.kind \in {"str", "list"}
    /\ \A i \in 1..Len(c.items) : c.items[i].kind = "dict" => WellTypedBlock(c.items[i].d)

\* d with the key k set to v when d lacks it.
WithDefault(d, k, v) == IF k \in DOMAIN d THEN d ELSE [x \in DOMAIN d \cup {k} |-> IF x = k THEN v ELSE d[x]]

\* pairs with the key k added, with value v, when the pairs lack it.
PairsWithDefault(pairs, k, v) ==
    IF \E i \in 1..Len(pairs) : pairs[i][1] = k THEN pairs ELSE Append(pairs, <<k, v>>)

\* A block with the documented default written out for each optional field
\* it lacks.
BlockWithDefaults(d) ==
    LET type == IF "type" \in DOMAIN d THEN d.type ELSE "" IN
    IF type = "text" THEN WithDefault(d, "text", Str(""))
    ELSE IF type = "thinking" THEN WithDefault(d, "thinking", Str(""))
    ELSE IF type = "tool_use"
    THEN WithDefault(WithDefault(d, "name", Str("Unknown")), "input", Mapping(<<>>))
    ELSE IF type = "tool_result" THEN WithDefault(d, "content", Str(""))
    ELSE d

\* The same, and the defaults of the keys inside the input of a known tool.
ToolInputWithDefaults(d) ==
    LET b == BlockWithDefaults(d)
        Fill(pairs) ==
            IF b.name.s = "Bash"
            THEN PairsWithDefault(PairsWithDefault(pairs, "command", ""), "description", "")
            ELSE IF b.name.s \in {"Read", "Write", "Edit"}
            THEN PairsWithDefault(pairs, "file_path", "")
            ELSE IF b.name.s \in {"Grep", "Glob"}
            THEN PairsWithDefault(PairsWithDefault(pairs, "pattern", ""), "path", ".")
            ELSE IF b.name.s = "Task"
            THEN PairsWithDefault(PairsWithDefault(pairs, "subagent_type", "unknown"),
                                  "description", "")
            ELSE pairs
    IN IF "type" \in DOMAIN d /\ d.type = "tool_use"
       THEN [b EXCEPT !.input = Mapping(Fill(b.input.pairs))]
       ELSE b

\* c with the defaults written out in every block: the top-level fields, and
\* the keys of a known tool's input as well.
WithFieldDefaults(c) ==
    [c EXCEPT !.items = [i \in 1..Len(c.items) |->
        IF c.items[i].kind = "dict" THEN Block(BlockWithDefaults(c.items[i].d)) ELSE c.items[i]]]

WithAllDefaults(c) ==
    [c EXCEPT !.items = [i \in 1..Len(c.items) |->
        IF c.items[i].kind = "dict" THEN Block(ToolInputWithDefaults(c.items[i].d)) ELSE c.items[i]]]

\* Some block of c lacks a field that d.get defaults.
LacksField(c) ==
    \E i \in 1..Len(c.items) :
        c.items[i].kind = "dict" /\ ToolInputWithDefaults(c.items[i].d) # c.items[i].d

\* C7: for content that is a string or a list of blocks, whatever optional
\* fields the blocks lack, neither entry point raises, and each gives what it
\* gives for the same content with the defaults written out (empty string,
\* empty mapping, tool name "Unknown", search path ".").
C7_MissingFieldsDefaulted ==
    WellTyped(content) =>
        /\ plain.status # "raised"
        /\ html.status # "raised"
        /\ ExtractCalled => plain = extract_text_content(WithFieldDefaults(content))
        /\ RenderCalled => html = render_message_content(WithAllDefaults(content))

\* Both entry points returned for a tool_use block that carries only its type.
C7_Witness ==
    /\ content = ListContent(<<Block([type |-> "tool_use"])>>)
    /\ LacksField(content)
    /\ plain.status = "returned"
    /\ html.status = "returned"

\* The plain-text fragment of a list item, for the items that have one.
HasPlainFragment(item) ==
    \/ item.kind = "str"
    \/ item.kind = "dict" /\ "type" \in DOMAIN item.d
          /\ item.d.type \in {"text", "thinking", "tool_use"}

PlainFragment(item) ==
    IF item.kind = "str" THEN item.s
    ELSE LET d == BlockWithDefaults(item.d) IN
         CASE d.type = "text" -> d.text.s
           [] d.type = "thinking" -> "[THINKING]\n" \o d.thinking.s \o "\n[/THINKING]"
           [] d.type = "tool_use" ->
                "[TOOL: " \o d.name.s \o "]\n" \o json_dumps(d.input) \o "\n[/TOOL]"

FragmentItems == {i \in 1..Len(content.items) : HasPlainFragment(content.items[i])}

NthFragmentItem(j) ==
    CHOOSE i \in FragmentItems : Cardinality({x \in FragmentItems : x <= i}) = j

\* C8: plain-text extraction of a block list is the newline-join, in block
\* order, of one fragment per Text, Thinking, ToolUse and bare string item;
\* every other item contributes nothing; string content is returned verbatim.
C8_PlainTextIsJoinOfFragments ==
    (WellTyped(content) /\ plain.status = "returned") =>
        IF content.kind = "str" THEN plain.value = content.s
        ELSE plain.value =
                Join("\n", [j \in 1..Cardinality(FragmentItems) |->
                               PlainFragment(content.items[NthFragmentItem(j)])])

\* A list with a ToolResult block between two items that give fragments.
C8_Witness ==
    /\ content.kind = "list" /\ Len(content.items) = 3
    /\ content.items[1] = Block([type |-> "thinking", thinking |-> Str("x")])
    /\ content.items[2] = Block([type |-> "tool_result", content |-> Str("ok")])
    /\ content.items[3] = BareString("bare")
    /\ plain = Returned("[THINKING]\nx\n[/THINKING]\nbare")

\* The content is one block of the given type, with well-typed fields.
IsSingleBlock(type) ==
    /\ content.kind = "list" /\ Len(content.items) = 1
    /\ content.items[1].kind = "dict"
    /\ "type" \in DOMAIN content.items[1].d /\ content.items[1].d.type = type
    /\ WellTypedBlock(content.items[1].d)

TheBlock == BlockWithDefaults(content.items[1].d)

\* C9: the formatted body of a Thinking block is the escaped text when that is
\* at most 1000 characters long, and otherwise its first 1000 characters and
\* the truncation marker: the marker is there exactly when content was cut.
C9_ThinkingTruncation ==
    (IsSingleBlock("thinking") /\ html.status = "returned") =>
        LET escaped == escape(TheBlock.thinking.s)
            body == html.value[1].body IN
        IF Len(escaped) <= ThinkingLimit
        THEN body = escaped
        ELSE body = SubSeq(escaped, 1, ThinkingLimit) \o TruncationMarker

\* The body a ToolUse block is to get for its name and input.
ExpectedToolBody(name, pairs) ==
    LET Has(k) == \E i \in 1..Len(pairs) : pairs[i][1] = k
        Val(k) == IF Has(k) THEN pairs[CHOOSE i \in 1..Len(pairs) : pairs[i][1] = k][2] ELSE ""
        json == json_dumps(Mapping(pairs))
    IN CASE name = "Bash" ->
              (IF Has("description") /\ Val("description") # ""
               THEN "# " \o Val("description") \o "\n" ELSE "") \o "$ " \o Val("command")
         [] name = "Read" -> "Reading: " \o Val("file_path")
         [] name = "Write" -> "Writing to: " \o Val("file_path")
         [] name = "Edit" -> "Editing: " \o Val("file_path")
         [] name \in {"Grep", "Glob"} ->
              "Pattern: " \o Val("pattern") \o "\nPath: " \o (IF Has("path") THEN Val("path") ELSE ".")
         [] name = "Task" ->
              "Agent: " \o (IF Has("subagent_type") THEN Val("subagent_type") ELSE "unknown")
                 \o "\nTask: " \o Val("description")
         [] OTHER -> IF Len(json) <= ToolInputLimit THEN json ELSE SubSeq(json, 1, ToolInputLimit)

\* C10: the formatted body of a ToolUse block is chosen by the tool name alone:
\* the Bash, Read/Write/Edit, Grep/Glob and Task forms, and for any other name
\* the indented JSON of the input cut to 500 characters, with no marker. The
\* body is HTML-escaped like all displayed text.
C10_ToolBodyByName ==
    (IsSingleBlock("tool_use") /\ html.status = "returned") =>
        /\ Len(html.value) = 1
        /\ html.value[1].header = "[wrench] " \o escape(TheBlock.name.s)
        /\ html.value[1].body =
              escape(ExpectedToolBody(TheBlock.name.s, TheBlock.input.pairs))

\* A tool that has no form of its own was rendered with an input whose JSON is
\* longer than the limit.
C10_Witness ==
    /\ IsSingleBlock("tool_use")
    /\ TheBlock.name.s = "X"
    /\ Len(json_dumps(TheBlock.input)) > ToolInputLimit
    /\ html.status = "returned"

\* The items of the content that are blocks of a type the renderer knows.
KnownBlockTypes == {"text", "thinking", "tool_use", "tool_result"}

KnownBlocks ==
    {i \in 1..Len(content.items) :
        /\ content.items[i].kind = "dict"
        /\ "type" \in DOMAIN content.items[i].d
        /\ content.items[i].d.type \in KnownBlockTypes}

NthKnownBlock(j) ==
    CHOOSE i \in KnownBlocks : Cardinality({x \in KnownBlocks : x <= i}) = j

\* The class of the outer div of the fragment of a block, by block type.
FragmentClass(type) ==
    CASE type = "text" -> "text-content"
      [] type = "thinking" -> "message thinking"
      [] type \in {"tool_use", "tool_result"} -> "tool-call"

\* C11: the formatted rendering of a block list is one fragment per block of a
\* known type, in block order (the j-th fragment is the one the j-th such block
\* gives when rendered alone), and it is the single "empty message" placeholder
\* exactly when no block gives a fragment; the placeholder is never added to
\* real fragments.
C11_FragmentPerKnownBlock ==
    (content.kind = "list" /\ WellTyped(content) /\ RenderCalled) =>
        /\ html.status = "returned"
        /\ IF KnownBlocks = {}
           THEN html.value = <<EmptyMessage>>
           ELSE /\ Len(html.value) = Cardinality(KnownBlocks)
                /\ \A j \in 1..Len(html.value) :
                      LET item == content.items[NthKnownBlock(j)] IN
                      /\ html.value[j].cls = FragmentClass(item.d.type)
                      /\ <<html.value[j]>> = render_message_content(ListContent(<<item>>)).value

\* A list with an unknown block between two known blocks was rendered as the
\* two fragments of the known blocks, in order.
C11_Witness ==
    /\ content.kind = "list" /\ Len(content.items) = 3
    /\ content.items[1] = Block([type |-> "thinking", thinking |-> Str("x")])
    /\ content.items[2] = Block([type |-> "image"])
    /\ content.items[3] = Block([type |-> "tool_result", content |-> Str("ok")])
    /\ html.status = "returned"
    /\ Len(html.value) = 2
    /\ html.value[1].cls = "message thinking"
    /\ html.value[2].header = "[outbox] Tool Result"

-----------------------------------------------------------------------------
(* Properties of the catalog. *)

\* The place of a file in the discovery order.
DiscoveryIndex(path) == CHOOSE k \in 1..Len(files) : PathOf(files[k]) = path

\* C12: the catalog is ordered by modification time, descending, and two
\* sessions of equal modification time are in the order in which their files
\* were discovered.
C12_SortedStable ==
    sessions.called =>
        \A i, j \in 1..Len(sessions.list) :
            i < j =>
                /\ sessions.list[i].modified >= sessions.list[j].modified
                /\ sessions.list[i].modified = sessions.list[j].modified =>
                      DiscoveryIndex(sessions.list[i].path) < DiscoveryIndex(sessions.list[j].path)

\* Three sessions: the one discovered second is the most recent and comes
\* first, the two others have equal modification times and keep their order.
C12_Witness ==
    /\ sessions.called
    /\ Len(files) = 3 /\ Len(sessions.list) = 3
    /\ files[1].mtime = 1 /\ files[2].mtime = 2 /\ files[3].mtime = 1
    /\ sessions.list[1].path = PathOf(files[2])
    /\ sessions.list[2].path = PathOf(files[1])
    /\ sessions.list[3].path = PathOf(files[3])

\* The places in the catalog of the summaries made for the k-th file.
SummariesOf(k) ==
    {i \in 1..Len(sessions.list) : sessions.list[i].path = PathOf(files[k])}

\* The content of a first message for which a preview exists: a string, a list
\* whose plain-text extraction succeeds, or a mapping.
Previewable(c) ==
    \/ c.kind = "str"
    \/ c.kind = "list" /\ extract_text_content(c).status = "returned"
    \/ c.kind = "other" /\ c.s = "dict"

\* The file is not named sessions-index, it normalizes without error to at
\* least one Message, and its first Message has a preview.
Listed(f) ==
    /\ f.id # "sessions-index"
    /\ parse_session(f.lines)[1] = "returned"
    /\ parse_session(f.lines)[2] # <<>>
    /\ Previewable(parse_session(f.lines)[2][1].content)

FileOf(summary) == files[DiscoveryIndex(summary.path)]
FirstMessageOf(f) == parse_session(f.lines)[2][1]

\* Python's first_msg[:150] + '...' applied to a text.
Truncated(text) ==
    IF Len(text) <= PreviewLimit THEN text ELSE SubSeq(text, 1, PreviewLimit) \o "..."

\* C14: the preview of a SessionSummary is the plain-text extraction of the
\* content of the first Message, whole when it is at most 150 characters long
\* and else its first 150 characters followed by an ellipsis; a transcript
\* with the same first Message and other later messages has the same preview.
C14_PreviewFromFirstMessage ==
    sessions.called =>
        \A i \in 1..Len(sessions.list) :
            LET f == FileOf(sessions.list[i])
                text == extract_text_content(FirstMessageOf(f).content)
            IN /\ text.status = "returned"
               /\ sessions.list[i].preview = StrContent(Truncated(text.value))
               /\ \A t \in CatalogTranscripts :
                     (Listed([f EXCEPT !.lines = t])
                         /\ FirstMessageOf([f EXCEPT !.lines = t]) = FirstMessageOf(f)) =>
                        SessionOf([f EXCEPT !.lines = t])[1].preview = sessions.list[i].preview

-----------------------------------------------------------------------------
(* Properties of the live server. *)

IsSessionPath(path) == StartsWithAt(path, 1, "/session/")

\* The last response is still current: no file has changed since it was given.
Current200 == served = response /\ response.status = 200 /\ IsSessionPath(response.path)
Current404 == served = response /\ response.status = 404 /\ IsSessionPath(response.path)

\* C20: the session chosen for a requested id is a session of the catalog
\* whose id contains the requested string, and it is the session of exactly
\* that id when the catalog has one, whatever other ids contain the string; a
\* request is answered not-found exactly when no id contains the string.
C20_ExactIdSelected ==
    /\ request.pc = "parsing" =>
          /\ \E i \in 1..Len(sessions.list) : sessions.list[i] = request.session
          /\ Contains(request.session.id, request.session_id)
          /\ (\E i \in 1..Len(sessions.list) : sessions.list[i].id = request.session_id) =>
                request.session.id = request.session_id
    /\ Current404 => Matching(get_all_sessions(files), SessionIdOf(response.path)) = <<>>
    /\ Current200 => Matching(get_all_sessions(files), SessionIdOf(response.path)) # <<>>

\* The page serve_session gives for the chosen session, from what its file
\* holds now.
PageNow(path, session) ==
    LET outcome == parse_session(FileAt(files, session.path).lines) IN
    IF outcome[1] = "raised" THEN Dropped(path)
    ELSE SendHtml(path, render_session_html(outcome[2], outcome[3], session.id))

\* What a request that is answered at once gets, from what the files hold now.
AnswerNow(path) ==
    IF path = "/" THEN SendHtml(path, render_session_list(get_all_sessions(files)))
    ELSE IF IsSessionPath(path)
    THEN Response(path, 404, "Session " \o SessionIdOf(path) \o " not found")
    ELSE IF path = "/favicon.ico" THEN Response(path, 204, "")
    ELSE Response(path, 404, "")

\* The step answers a request at once; the step chooses a session; the step
\* answers the request of the session chosen before.
AnswersAtOnce ==
    /\ request.pc = "idle" /\ request'.pc = "idle" /\ files' = files
    /\ <<response', served'>> # <<response, served>>
ChoosesSession == request.pc = "idle" /\ request'.pc = "parsing"
AnswersSession == request.pc = "parsing" /\ request'.pc = "idle"

\* C15: nothing is kept from one request to the next. A request is answered
\* from what the files hold when it is handled: not-found exactly when no
\* session of the catalog computed then matches, else the first match of that
\* catalog, rendered from the lines its file holds when it is read. Two
\* requests of the same path with no file change from the start of the first
\* to the end of the second get the same response.
C15_NoCaching ==
    [][/\ AnswersAtOnce =>
             /\ response' = AnswerNow(response'.path)
             /\ IsSessionPath(response'.path) =>
                   Matching(get_all_sessions(files), SessionIdOf(response'.path)) = <<>>
       /\ ChoosesSession =>
             /\ Matching(get_all_sessions(files), request'.session_id) # <<>>
             /\ request'.session = Matching(get_all_sessions(files), request'.session_id)[1]
       /\ AnswersSession =>
             /\ response' = PageNow(request.path, request.session)
             /\ (~request.touched /\ served # NoResponse /\ served.path = request.path) =>
                   response' = served]_vars

\* A session was served, then requested again, and a file changed while the
\* second request was being handled.
C15_Witness ==
    /\ request.pc = "parsing" /\ request.touched
    /\ response.status = 200 /\ response.path = request.path
    /\ served = NoResponse
    /\ response.body.count # Len(parse_session(FileAt(files, request.session.path).lines)[2])

-----------------------------------------------------------------------------
(* Properties of parse_session calls running side by side. *)

\* What the call of caller c has, or had when it ended.
ResultOf(c) == [passes[c].st EXCEPT !.raised = (passes[c].pc = "raised")]

\* C16: whatever the other calls do before, during or after it, a call has
\* at every point, and returns, the messages and session_info that a call
\* running alone has after the same lines, and raises where that one raises.
C16_PassesIndependent ==
    \A c \in DOMAIN passes : ResultOf(c) = ParseFrom(InitialPass, passes[c].lines)

\* Two calls have returned different messages and different metadata, and
\* each took steps while the other was in the middle of its file.
C16_Witness ==
    /\ DOMAIN passes = Callers
    /\ \A c \in Callers :
          /\ passes[c].pc = "done" /\ passes[c].interleaved
          /\ passes[c].st.messages # <<>>
    /\ passes["get_all_sessions"].st.session_info.sessionId = "s1"
    /\ passes["serve_session"].st.session_info.sessionId = "s2"
    /\ "summary" \in DOMAIN passes["serve_session"].st.session_info

=============================================================================
